---- MODULE Spec2Model ----
(***************************************************************************)
(* unwpreg: extraction of wpreg firmware archives (src/unwpreg.c).         *)
(*                                                                         *)
(* Bytes and characters are their codes (0 = NUL, 47 = '/', 46 = '.',      *)
(* 48..57 = '0'..'9').  A C string is a position in a byte sequence and    *)
(* runs to the first NUL.  size_t values are kept as the representative    *)
(* of their residue modulo 2^64 nearest to zero, so that + and - are the   *)
(* machine's wrapping operations and a negative representative v stands    *)
(* for 2^64 + v; the unsigned order is ULe.                                *)
(*                                                                         *)
(* The filesystem is a function from absolute paths (sequences of          *)
(* component names) to nodes; <<>> is "/".                                  *)
(***************************************************************************)
EXTENDS Integers, Sequences, FiniteSets, TLC

VARIABLES
    argv,     \* main: the archive files named on the command line (their contents)
    argi,     \* main: i
    euid0,    \* whether the process runs privileged (permission checks bypassed)
    faults,   \* how many operating-system failures may still be injected
    fs,       \* the filesystem
    cwd,      \* the process's current working directory
    pc,       \* position in the program
    err,      \* which check ended the process ("none" while it has not)
    mapped,   \* process_file: the bytes of the mapping mmap returned (mem)
    off,      \* process_mem: mem, as an offset into the mapping
    size,     \* process_mem: size (bytes left)
    part,     \* process_buf: the decoded fields of the current record
    path,     \* save_buf: path after the leading '/' are skipped (a C string)
    s,        \* _mkdir_p: its argument (the rest of the directory part)
    fds,      \* _mkdir_p: the descriptors of "." held by the active calls
    nrec,     \* how many times process_buf has returned for this archive
              \* (not counted beyond MaxRecs + 1)
    total,    \* the sum of the lengths process_buf returned for this archive
    snap,     \* the filesystem when the current record's processing began
    fs0,      \* the filesystem when the program started
    after,    \* the filesystem as each archive extracted so far left it
    injected, \* the system calls that were made to fail, in order
    opened    \* how many of the archive files main has tried to open

vars == <<argv, argi, euid0, faults, fs, cwd, pc, err, mapped, off, size, part, path, s,
          fds, nrec, total, snap, fs0, after, injected, opened>>

----------------------------------------------------------------------------
(* Bounds of the model *)

MaxRecs == 2      \* records per archive
MaxArgs == 2      \* archive files on the command line
MaxFaults == 1    \* injected operating-system failures per run (SpecIO)

----------------------------------------------------------------------------
(* struct fwpart *)

NameW == 116
SizeW == 12
HashW == 16
ModeW == 12
TimeW == 12
RsvdW == 12
PathW == 60
VersW == 16

\* sizeof(struct fwpart): the flexible payload[] adds nothing, and an array
\* of char needs no padding
HDR == NameW + SizeW + HashW + ModeW + TimeW + RsvdW + PathW + VersW

SizeOff == NameW
ModeOff == SizeOff + SizeW + HashW
TimeOff == ModeOff + ModeW
RsvdOff == TimeOff + TimeW
PathOff == RsvdOff + RsvdW
VersOff == PathOff + PathW

----------------------------------------------------------------------------
(* Sequences *)

Drop(q, n) == SubSeq(q, n + 1, Len(q))

Take(q, n) == SubSeq(q, 1, n)

RECURSIVE Flatten(_)
Flatten(qs) == IF qs = <<>> THEN <<>> ELSE Head(qs) \o Flatten(Tail(qs))

Zeros(n) == [i \in 1..n |-> 0]

\* position of the first b in q at or after position i, 0 if there is none
RECURSIVE IndexFrom(_, _, _)
IndexFrom(q, b, i) ==
    IF i > Len(q) THEN 0
    ELSE IF q[i] = b THEN i
    ELSE IndexFrom(q, b, i + 1)

\* the C string that starts at offset o (0-based) of mem: the bytes up to
\* the first NUL (up to the end of the mapping if there is none)
CStr(mem, o) ==
    LET z == IndexFrom(mem, 0, o + 1)
    IN  IF z = 0 THEN Drop(mem, o) ELSE SubSeq(mem, o + 1, z - 1)

----------------------------------------------------------------------------
(* size_t *)

\* a <= b as unsigned 64-bit values
ULe(a, b) == IF (a >= 0) = (b >= 0) THEN a <= b ELSE a >= 0

----------------------------------------------------------------------------
(* strtoul(nptr, NULL, 0) *)

IsSpace(c) == c = 32 \/ c \in 9..13

DigitVal(c) ==
    IF c \in 48..57 THEN c - 48
    ELSE IF c \in 97..122 THEN c - 97 + 10
    ELSE IF c \in 65..90 THEN c - 65 + 10
    ELSE 99

At(q, i) == IF i <= Len(q) THEN q[i] ELSE 0

RECURSIVE SkipSpace(_, _)
SkipSpace(q, i) == IF IsSpace(At(q, i)) THEN SkipSpace(q, i + 1) ELSE i

RECURSIVE Digits(_, _, _, _)
Digits(q, i, base, acc) ==
    IF DigitVal(At(q, i)) < base
    THEN Digits(q, i + 1, base, acc * base + DigitVal(At(q, i)))
    ELSE acc

\* a conversion that knows decimal digits only
strtoul_base10(q) == Digits(q, 1, 10, 0)

\* q is the C string nptr points to
strtoul(q) ==
    LET i0  == SkipSpace(q, 1)
        neg == At(q, i0) = 45
        i1  == IF At(q, i0) \in {43, 45} THEN i0 + 1 ELSE i0
        hex == At(q, i1) = 48 /\ At(q, i1 + 1) \in {120, 88}
                 /\ DigitVal(At(q, i1 + 2)) < 16
        v   == IF hex THEN Digits(q, i1 + 2, 16, 0)
               ELSE IF At(q, i1) = 48 THEN Digits(q, i1, 8, 0)
               ELSE Digits(q, i1, 10, 0)
    IN  IF neg THEN 0 - v ELSE v

----------------------------------------------------------------------------
(* The archive format: how a record is laid out in the file *)

Pad(q, w) == q \o Zeros(w - Len(q))

\* the digits of n in the given base, most significant first
RECURSIVE NumText(_, _)
NumText(n, base) ==
    IF n < base THEN <<48 + n>>
    ELSE NumText(n \div base, base) \o <<48 + (n % base)>>

\* A record as the archive's producer lays it out: the header fields, each
\* NUL-padded to its width, then the payload.  f holds the fields' text.
RecBytes(f) ==
    Pad(f.name, NameW) \o Pad(f.size, SizeW) \o Pad(f.hash, HashW)
      \o Pad(f.mode, ModeW) \o Pad(f.time, TimeW) \o Pad(f.rsvd, RsvdW)
      \o Pad(f.path, PathW) \o Pad(f.vers, VersW) \o f.payload

\* The record of a well-formed archive for the tuple t = (path, mode, time,
\* content): size and time in decimal, mode in octal with a leading 0.
TupleRec(t) ==
    [name |-> <<110>>, size |-> NumText(Len(t.content), 10), hash |-> <<>>,
     mode |-> <<48>> \o NumText(t.mode, 8), time |-> NumText(t.time, 10),
     rsvd |-> <<48>>, path |-> t.path, vers |-> <<49>>, payload |-> t.content]

\* An archive is described by the list of its records, each given as a
\* tuple or by the text of its fields: the fields of record r
RecOf(r) == IF "content" \in DOMAIN r THEN TupleRec(r) ELSE r

\* the bytes of the archive file for a list of records, cut to `cut` bytes
FileBytes(a) == Take(Flatten([i \in 1..Len(a.recs) |-> RecBytes(RecOf(a.recs[i]))]), a.cut)

FullLen(recs) == Len(Flatten([i \in 1..Len(recs) |-> RecBytes(RecOf(recs[i]))]))

----------------------------------------------------------------------------
(* Path strings *)

\* q without its leading '/'
RECURSIVE SkipSlashes(_)
SkipSlashes(q) == IF q # <<>> /\ Head(q) = 47 THEN SkipSlashes(Tail(q)) ELSE q

\* the position of the last '/' among the first n characters of q, 0 if
\* there is none
RECURSIVE LastSlashIn(_, _)
LastSlashIn(q, n) ==
    IF n = 0 THEN 0
    ELSE IF q[n] = 47 THEN n
    ELSE LastSlashIn(q, n - 1)

\* strrchr(q, '/') as a position, 0 for NULL
LastSlash(q) == LastSlashIn(q, Len(q))

\* the first position of the run of '/' that ends at position i
RECURSIVE RunStart(_, _)
RunStart(q, i) == IF i > 1 /\ q[i - 1] = 47 THEN RunStart(q, i - 1) ELSE i

\* dirname(3) of the C library
dirname(q) ==
    LET l0 == LastSlash(q)
        l1 == IF l0 # 0 /\ l0 # 1 /\ l0 = Len(q)
              THEN LET r == RunStart(q, l0)
                   IN  IF r # 1 THEN LastSlash(Take(q, r - 1)) ELSE l0
              ELSE l0
    IN  IF l1 = 0 THEN <<46>>
        ELSE LET r == RunStart(q, l1)
             IN  IF r = 1 THEN (IF l1 = 2 THEN <<47, 47>> ELSE <<47>>)
                 ELSE Take(q, r - 1)

\* the components of a path string: the non-empty pieces between '/'
RECURSIVE Components(_)
Components(q) ==
    LET r == SkipSlashes(q)
        i == IndexFrom(r, 47, 1)
    IN  IF r = <<>> THEN <<>>
        ELSE IF i = 0 THEN <<r>>
        ELSE <<Take(r, i - 1)>> \o Components(Drop(r, i))

----------------------------------------------------------------------------
(* The filesystem, as the system calls of the program see it *)

Root == << <<114>> >>          \* the directory the program is started in, "/r"

Perm == 4096                   \* chmod keeps the bits below 010000 (07777)

Umask == 18                    \* the process's file-creation mask, 022

Clock == 0                     \* stands for the time a create or write stamps

OwnerWrite == 128              \* S_IWUSR, 0200

\* m with the bits of mask cleared
RECURSIVE ClearBits(_, _)
ClearBits(m, mask) ==
    IF m = 0 THEN 0
    ELSE 2 * ClearBits(m \div 2, mask \div 2)
           + (IF mask % 2 = 1 THEN 0 ELSE m % 2)

DirNode(mode) ==
    [kind |-> "dir", mode |-> ClearBits(mode, Umask), data |-> <<>>,
     atime |-> Clock, mtime |-> Clock]

FileNode(mode, data) ==
    [kind |-> "file", mode |-> mode, data |-> data, atime |-> Clock, mtime |-> Clock]

Exists(f, p) == p \in DOMAIN f

IsDir(f, p) == Exists(f, p) /\ f[p].kind = "dir"

\* f with node n at path p
Put(f, p, n) == [x \in DOMAIN f \cup {p} |-> IF x = p THEN n ELSE f[x]]

Parent(p) == Take(p, Len(p) - 1)

\* Path resolution: walk the components cs from directory d.  The result is
\* the absolute path reached, with ok = FALSE when a component that must be
\* a directory is missing or is none.  The last component may be missing.
RECURSIVE Walk(_, _, _)
Walk(f, d, cs) ==
    IF ~IsDir(f, d) THEN [ok |-> FALSE, at |-> d]
    ELSE IF cs = <<>> THEN [ok |-> TRUE, at |-> d]
    ELSE LET c == Head(cs)
             n == IF c = <<46>> THEN d
                  ELSE IF c = <<46, 46>> THEN (IF d = <<>> THEN d ELSE Parent(d))
                  ELSE Append(d, c)
         IN  IF Len(cs) = 1 THEN [ok |-> TRUE, at |-> n]
             ELSE Walk(f, n, Tail(cs))

\* where the path string q leads from working directory d
Resolve(f, d, q) ==
    IF q = <<>> THEN [ok |-> FALSE, at |-> d]
    ELSE Walk(f, IF Head(q) = 47 THEN <<>> ELSE d, Components(q))

\* whether open(q, O_WRONLY|O_CREAT|O_TRUNC) succeeds from directory d
CanOpenW(f, d, q, priv) ==
    LET r == Resolve(f, d, q)
    IN  /\ r.ok
        /\ q[Len(q)] # 47
        /\ ~IsDir(f, r.at)
        /\ Exists(f, r.at) => (priv \/ (f[r.at].mode \div OwnerWrite) % 2 = 1)

----------------------------------------------------------------------------
(* Inputs *)

\* (path, mode, time, content) tuples archives are built from:
\* "a/b/f" twice (the second read-only), "//a/b", "f" and "c//d/g"
Tuples ==
    { [path |-> <<97, 47, 98, 47, 102>>, mode |-> 420, time |-> 1000, content |-> <<1, 2>>],
      [path |-> <<97, 47, 98, 47, 102>>, mode |-> 292, time |-> 2000, content |-> <<3>>],
      [path |-> <<47, 47, 97, 47, 98>>, mode |-> 493, time |-> 1000, content |-> <<>>],
      [path |-> <<102>>, mode |-> 420, time |-> 2000, content |-> <<4>>],
      [path |-> <<99, 47, 47, 100, 47, 103>>, mode |-> 493, time |-> 2000, content |-> <<5, 6, 7>>] }

TupleLists == UNION {[1..n -> Tuples] : n \in 0..MaxRecs}

\* where an archive file may end: after its last record, or inside the
\* header or the payload of its last record
Cuts(recs) ==
    IF recs = <<>> THEN {0}
    ELSE LET full  == FullLen(recs)
             n     == Len(recs[Len(recs)].content)
             start == full - n - HDR
         IN  {full, start + 1, start + HDR - 1}
               \cup (IF n > 0 THEN {start + HDR, full - 1} ELSE {})

Archives == UNION {{[recs |-> r, cut |-> c] : c \in Cuts(r)} : r \in TupleLists}

WellFormed(a) == a.cut = FullLen(a.recs)

\* a record given by the text of its fields
Fields(sz, md, tm, pth, vrs, pl) ==
    [name |-> <<110>>, size |-> sz, hash |-> <<>>, mode |-> md, time |-> tm,
     rsvd |-> <<48>>, path |-> pth, vers |-> vrs, payload |-> pl]

\* Records as any producer may have laid them out:
\*   size "0x2A", mode "0755", time "0X10", path "a/f", 42 bytes of payload;
\*   size "2x", mode "0789", time " +12", path "a/b/g", 2 bytes of payload;
\*   size "-256" and size "-1", path "a/f", no payload;
\*   a path that fills its 60 bytes ("a/" and 58 'f') before a vers that
\*   fills its 16 bytes, 1 byte of payload;
\*   paths "../x/f" and "a/../b/f", 1 byte of payload
RawRecs ==
    { Fields(<<48, 120, 50, 65>>, <<48, 55, 53, 53>>, <<48, 88, 49, 48>>,
             <<97, 47, 102>>, <<49>>, [i \in 1..42 |-> i]),
      Fields(<<50, 120>>, <<48, 55, 56, 57>>, <<32, 43, 49, 50>>,
             <<97, 47, 98, 47, 103>>, <<49>>, <<8, 9>>),
      Fields(<<45, 50, 53, 54>>, <<48, 54, 52, 52>>, <<49, 48>>,
             <<97, 47, 102>>, <<49>>, <<>>),
      Fields(<<45, 49>>, <<48, 54, 52, 52>>, <<49, 48>>,
             <<97, 47, 102>>, <<49>>, <<>>),
      Fields(<<49>>, <<48, 54, 52, 52>>, <<49, 48>>,
             <<97, 47>> \o [i \in 1..(PathW - 2) |-> 102], [i \in 1..VersW |-> 118], <<7>>),
      Fields(<<49>>, <<48, 54, 52, 52>>, <<49, 48>>,
             <<46, 46, 47, 120, 47, 102>>, <<49>>, <<7>>),
      Fields(<<49>>, <<48, 54, 52, 52>>, <<49, 48>>,
             <<97, 47, 46, 46, 47, 98, 47, 102>>, <<49>>, <<7>>) }

RawLists == UNION {[1..n -> RawRecs] : n \in 1..MaxRecs}

\* archive files of such records, whole
RawArchives == {[recs |-> r, cut |-> FullLen(r)] : r \in RawLists}

\* the filesystem before the run: the start directory empty, or holding a
\* plain file "a", or a directory "a" that holds a plain file "b"
EmptyFs == (<<>> :> DirNode(511)) @@ (Root :> DirNode(511))

InitialFs ==
    { EmptyFs,
      Put(EmptyFs, Append(Root, <<97>>), FileNode(420, <<9>>)),
      Put(Put(EmptyFs, Append(Root, <<97>>), DirNode(511)),
          Root \o << <<97>>, <<98>> >>, FileNode(420, <<9>>)) }

----------------------------------------------------------------------------
(* The program *)

NoPart == [size |-> 0, mode |-> 0, time |-> 0, rsvd |-> 0, path |-> <<>>]

InitFrom(A, n) ==
    /\ \E a \in A : \E k \in 1..MaxArgs : argv = [i \in 1..k |-> a]
    /\ argi = 1
    /\ euid0 \in BOOLEAN
    /\ faults = n
    /\ fs \in InitialFs
    /\ cwd = Root
    /\ pc = "main"
    /\ err = "none"
    /\ mapped = <<>>
    /\ off = 0
    /\ size = 0
    /\ part = NoPart
    /\ path = <<>>
    /\ s = <<>>
    /\ fds = <<>>
    /\ nrec = 0
    /\ total = 0
    /\ snap = fs
    /\ fs0 = fs
    /\ after = <<>>
    /\ injected = <<>>
    /\ opened = 0

InitWith(n) == InitFrom(Archives, n)

Init == InitWith(0)

InitIO == InitWith(MaxFaults)

InitRaw == InitFrom(RawArchives, 0)

\* the outcomes of a call that can fail: "ok", and the failures in fs while
\* the budget of injected failures lasts
Outcomes(fails) == {"ok"} \cup (IF faults > 0 THEN fails ELSE {})

Spend(o) ==
    /\ faults' = IF o = "ok" THEN faults ELSE faults - 1
    /\ injected' = IF o = "ok" THEN injected ELSE Append(injected, o)

\* a failed check that gave up the archive and went back to main's loop
ReturnToMain(kind) ==
    /\ pc' = "main"
    /\ err' = kind

\* a failed check that let the program go on to save_buf
SkipCheck(kind) ==
    /\ pc' = "save_buf"
    /\ err' = kind

\* a failed assert: abort()
Abort(kind) ==
    /\ pc' = "aborted"
    /\ err' = kind

\* main returns 1
Exit1(kind) ==
    /\ pc' = "exit1"
    /\ err' = kind

\* the mapping of the current archive file from the current record on
Mem == Drop(mapped, off)

\* main, the loop's body down to the call of process_mem
main ==
    /\ pc = "main"
    /\ argi <= Len(argv)
    /\ \E o \in Outcomes({"open", "fstat", "mmap"}) :
         /\ Spend(o)
         /\ IF o # "ok" THEN
                /\ Exit1(o)
                /\ UNCHANGED <<mapped, off, size, nrec, total>>
            ELSE IF argv[argi].cut = 0 THEN
                \* mmap of length 0 fails with EINVAL
                /\ Exit1("mmap")
                /\ UNCHANGED <<mapped, off, size, nrec, total>>
            ELSE
                /\ pc' = "process_mem"
                /\ mapped' = FileBytes(argv[argi])
                /\ off' = 0
                /\ size' = argv[argi].cut
                /\ nrec' = 0
                /\ total' = 0
                /\ UNCHANGED err
    /\ opened' = opened + 1
    /\ UNCHANGED <<argv, argi, euid0, fs, cwd, part, path, s, fds, snap, fs0, after>>

\* main, after the last argument: return 0
main_return ==
    /\ pc = "main"
    /\ argi > Len(argv)
    /\ pc' = "exit0"
    /\ UNCHANGED <<argv, argi, euid0, faults, fs, cwd, err, off, size, part, path,
                   s, fds, nrec, total, snap, fs0, mapped, after, injected, opened>>

\* process_mem, one test of the loop condition; when it fails, the return
\* through process_file to main's i++
process_mem ==
    /\ pc = "process_mem"
    /\ IF size # 0 THEN
           /\ pc' = "process_buf"
           /\ UNCHANGED <<argi, after>>
       ELSE
           /\ pc' = "main"
           /\ argi' = argi + 1
           /\ after' = Append(after, fs)
    /\ UNCHANGED <<argv, euid0, faults, fs, cwd, err, off, size, part, path, s,
                   fds, nrec, total, snap, fs0, mapped, injected, opened>>

\* a check of the payload's length that forgot the header
FitsSizeOnly(sz, count) == ULe(sz, count)

\* process_buf: assert(count >= sizeof(struct fwpart) + size);
Fits(sz, count) == ULe(HDR + sz, count)

\* process_buf down to the call of save_buf
process_buf ==
    /\ pc = "process_buf"
    /\ LET mem == Mem
           sz  == strtoul(CStr(mem, SizeOff))
       IN  IF ~ULe(HDR, size) THEN
               /\ Abort("TruncatedHeader")
               /\ UNCHANGED <<part, snap>>
           ELSE IF ~Fits(sz, size) THEN
               /\ Abort("TruncatedPayload")
               /\ UNCHANGED <<part, snap>>
           ELSE
               /\ part' = [size |-> sz,
                           mode |-> strtoul(CStr(mem, ModeOff)),
                           time |-> strtoul(CStr(mem, TimeOff)),
                           rsvd |-> strtoul(CStr(mem, RsvdOff)),
                           path |-> CStr(mem, PathOff)]
               /\ snap' = fs
               /\ pc' = "save_buf"
               /\ UNCHANGED err
    /\ UNCHANGED <<argv, argi, euid0, faults, fs, cwd, off, size, path, s, fds,
                   nrec, total, fs0, mapped, after, injected, opened>>

\* a save_buf that handed the declared path on as it is
NormalizeNothing(q) == q

\* save_buf: while (*path == '/') path++;
Normalize(q) == SkipSlashes(q)

\* save_buf down to mkdir_p_fn's call of _mkdir_p
save_buf ==
    /\ pc = "save_buf"
    /\ \E o \in Outcomes({"malloc"}) :
         /\ Spend(o)
         /\ IF o # "ok" THEN
                /\ Abort("FilesystemWriteFailure")
                /\ UNCHANGED <<path, s>>
            ELSE
                /\ path' = Normalize(part.path)
                /\ s' = dirname(path')
                /\ pc' = "_mkdir_p"
                /\ UNCHANGED err
    /\ UNCHANGED <<argv, argi, euid0, fs, cwd, off, size, part, fds, nrec, total,
                   snap, fs0, mapped, after, opened>>

\* a _mkdir that took whatever it found under the name for a directory
mkdir_unverified(f, d, name, mode, o, isdir) ==
    LET p == Append(d, name)
    IN  IF name = <<>> \/ Head(name) = 47 \/ name = <<46>> \/ name = <<46, 46>>
        THEN [err |-> "InvalidComponent", fs |-> f]
        ELSE IF ~Exists(f, p) /\ o \notin {"stat", "mkdir"}
        THEN [err |-> "none", fs |-> Put(f, p, DirNode(mode))]
        ELSE [err |-> "none", fs |-> f]

\* a _mkdir that, when it gives up, puts the filesystem back as it was when
\* the program started
mkdir_rollback(f, d, name, mode, o, isdir) ==
    LET p == Append(d, name)
    IN  IF name = <<>> \/ Head(name) = 47 \/ name = <<46>> \/ name = <<46, 46>>
        THEN [err |-> "InvalidComponent", fs |-> fs0]
        ELSE IF ~Exists(f, p) THEN [err |-> "none", fs |-> Put(f, p, DirNode(mode))]
        ELSE IF IsDir(f, p) THEN [err |-> "none", fs |-> f]
        ELSE [err |-> "DirectoryConflict", fs |-> fs0]

\* a _mkdir that lets ".." through as a directory that is there
mkdir_dotdot(f, d, name, mode, o, isdir) ==
    LET p == Append(d, name)
    IN  IF name = <<>> \/ Head(name) = 47 \/ name = <<46>>
        THEN [err |-> "InvalidComponent", fs |-> f]
        ELSE IF name = <<46, 46>> THEN [err |-> "none", fs |-> f]
        ELSE IF ~Exists(f, p) THEN [err |-> "none", fs |-> Put(f, p, DirNode(mode))]
        ELSE IF IsDir(f, p) THEN [err |-> "none", fs |-> f]
        ELSE [err |-> "DirectoryConflict", fs |-> f]

\* _mkdir(name, mode) in directory d of filesystem f, when the calls it
\* makes end as o says: the filesystem it leaves, and the assert that
\* failed ("none" if none did).  A stat that fails otherwise than with
\* ENOENT leaves st unset, and the assert on st.st_mode may then go either
\* way: isdir is the way it goes.
_mkdir(f, d, name, mode, o, isdir) ==
    LET p == Append(d, name)
    IN  IF name = <<>> \/ Head(name) = 47 \/ name = <<46>> \/ name = <<46, 46>>
        THEN [err |-> "InvalidComponent", fs |-> f]
        ELSE IF o = "stat"
        THEN [err |-> IF isdir THEN "none" ELSE "DirectoryConflict", fs |-> f]
        ELSE IF ~Exists(f, p)
        THEN IF o = "mkdir"
             THEN [err |-> "FilesystemWriteFailure", fs |-> f]
             ELSE [err |-> "none", fs |-> Put(f, p, DirNode(mode))]
        ELSE IF IsDir(f, p) THEN [err |-> "none", fs |-> f]
        ELSE [err |-> "DirectoryConflict", fs |-> f]

\* _mkdir_p's split of its argument at the first run of '/': the first
\* component, whether s is non-null, and the string s then points to
SplitFirst(q) ==
    LET i == IndexFrom(q, 47, 1)
    IN  IF i = 0 THEN [first |-> q, more |-> FALSE, rest |-> <<>>]
        ELSE [first |-> Take(q, i - 1), more |-> TRUE, rest |-> SkipSlashes(Drop(q, i - 1))]

\* a _mkdir_p that went on without changing directory
ChdirNowhere(d, name) == d

\* _chdir(name) in directory d: the working directory it leaves
ChdirTo(d, name) == Append(d, name)

\* one call of _mkdir_p, down to its recursive call or to its return
_mkdir_p ==
    /\ pc = "_mkdir_p"
    /\ \E o \in Outcomes({"stat", "mkdir", "open", "chdir"}) : \E isdir \in BOOLEAN :
         LET sp == SplitFirst(s)
             r  == _mkdir(fs, cwd, sp.first, 511, o, isdir)
             to == Append(cwd, sp.first)
         IN  /\ o = "mkdir" => ~Exists(fs, to)
             /\ o # "stat" => isdir
             /\ Spend(o)
             /\ fs' = r.fs
             /\ IF r.err # "none" THEN
                    /\ Abort(r.err)
                    /\ UNCHANGED <<cwd, s, fds>>
                ELSE IF sp.more THEN
                    IF o \in {"open", "chdir"} \/ ~IsDir(r.fs, to) THEN
                        /\ Abort("FilesystemWriteFailure")
                        /\ UNCHANGED <<cwd, s, fds>>
                    ELSE
                        /\ fds' = Append(fds, cwd)
                        /\ cwd' = ChdirTo(cwd, sp.first)
                        /\ s' = sp.rest
                        /\ UNCHANGED <<pc, err>>
                ELSE
                    /\ o \notin {"open", "chdir"}
                    /\ pc' = IF fds = <<>> THEN "fopen" ELSE "return"
                    /\ UNCHANGED <<cwd, s, fds, err>>
    /\ UNCHANGED <<argv, argi, euid0, off, size, part, path, nrec, total, snap,
                   fs0, mapped, after, opened>>

\* the return of a call of _mkdir_p into the call that made it:
\* fchdir(fd); close(fd);
mkdir_p_return ==
    /\ pc = "return"
    /\ \E o \in Outcomes({"fchdir"}) :
         /\ Spend(o)
         /\ cwd' = IF o = "ok" THEN fds[Len(fds)] ELSE cwd
    /\ fds' = Take(fds, Len(fds) - 1)
    /\ pc' = IF fds' = <<>> THEN "fopen" ELSE "return"
    /\ UNCHANGED <<argv, argi, euid0, fs, err, off, size, part, path, s, nrec,
                   total, snap, fs0, mapped, after, opened>>

\* the file save_buf's path names
Target == Resolve(fs, cwd, path).at

\* save_buf: f = fopen(path, "w"); assert(f != NULL);
fopen ==
    /\ pc = "fopen"
    /\ \E o \in Outcomes({"fopen"}) :
         /\ Spend(o)
         /\ IF o = "ok" /\ CanOpenW(fs, cwd, path, euid0) THEN
                /\ fs' = Put(fs, Target,
                             IF Exists(fs, Target)
                             THEN [fs[Target] EXCEPT !.data = <<>>, !.mtime = Clock]
                             ELSE FileNode(ClearBits(438, Umask), <<>>))
                /\ pc' = "fwrite"
                /\ UNCHANGED err
            ELSE
                /\ Abort("FilesystemWriteFailure")
                /\ UNCHANGED fs
    /\ UNCHANGED <<argv, argi, euid0, cwd, off, size, part, path, s, fds, nrec,
                   total, snap, fs0, mapped, after, opened>>

\* the payload of the current record: pt->payload, size bytes
Payload == SubSeq(Mem, HDR + 1, HDR + part.size)

\* whether those size bytes lie inside the mapping
InMapping == ULe(part.size, HDR + part.size) /\ ULe(HDR + part.size, Len(Mem))

\* what the file holds after a write that ends as o says: all of the
\* payload, or some shorter prefix of it
Written(data, o) ==
    IF o = "ok" THEN {data} ELSE {Take(data, k) : k \in 0..(Len(data) - 1)}

\* What a write of bytes that run past the end of the mapping may leave in
\* the file: nothing, or what the mapping holds from the payload on (what
\* follows it in memory is not modelled).
Overread == {<<>>, Drop(Mem, HDR)}

\* save_buf: fwrite(buf, size, 1, f); fclose(f);
\* Reading past the mapping is undefined: the process may be killed by the
\* fault, or part of the bytes may be written and the program go on.
fwrite ==
    /\ pc = "fwrite"
    /\ \/ /\ \E o \in Outcomes({"fwrite"}) :
                \E d \in (IF InMapping THEN Written(Payload, o) ELSE Overread) :
                   /\ Spend(o)
                   /\ fs' = Put(fs, Target, [fs[Target] EXCEPT !.data = d, !.mtime = Clock])
             /\ pc' = "chmod"
             /\ UNCHANGED err
       \/ /\ ~InMapping
          /\ Abort("Fault")
          /\ UNCHANGED <<fs, faults, injected>>
    /\ UNCHANGED <<argv, argi, euid0, cwd, off, size, part, path, s, fds,
                   nrec, total, snap, fs0, mapped, after, opened>>

\* save_buf: chmod(path, mode);
chmod ==
    /\ pc = "chmod"
    /\ \E o \in Outcomes({"chmod"}) :
         /\ Spend(o)
         /\ fs' = IF o = "ok"
                  THEN Put(fs, Target, [fs[Target] EXCEPT !.mode = part.mode % Perm])
                  ELSE fs
    /\ pc' = "utime"
    /\ UNCHANGED <<argv, argi, euid0, cwd, err, off, size, part, path, s, fds,
                   nrec, total, snap, fs0, mapped, after, opened>>

\* a process_buf that returned the header's length alone
LengthOfHeader == HDR

\* what process_buf returns
Length == HDR + part.size

\* save_buf: utime(path, &times); then the returns to process_mem and its
\* mem += length; size -= length;
utime ==
    /\ pc = "utime"
    /\ \E o \in Outcomes({"utime"}) :
         /\ Spend(o)
         /\ fs' = IF o = "ok"
                  THEN Put(fs, Target, [fs[Target] EXCEPT !.atime = part.time,
                                                          !.mtime = part.time])
                  ELSE fs
    /\ off' = off + Length
    /\ size' = size - Length
    /\ nrec' = IF nrec <= MaxRecs THEN nrec + 1 ELSE nrec
    /\ total' = total + Length
    /\ pc' = "process_mem"
    /\ UNCHANGED <<argv, argi, euid0, cwd, err, part, path, s, fds, snap, fs0, mapped, after, opened>>

Next ==
    \/ main
    \/ main_return
    \/ process_mem
    \/ process_buf
    \/ save_buf
    \/ _mkdir_p
    \/ mkdir_p_return
    \/ fopen
    \/ fwrite
    \/ chmod
    \/ utime

\* the program on a filesystem whose operations do not fail for reasons
\* outside the program's control
Spec == Init /\ [][Next]_vars

\* the program when up to MaxFaults system calls fail
SpecIO == InitIO /\ [][Next]_vars

\* the program on archive files of any layout
SpecRaw == InitRaw /\ [][Next]_vars

\* the same, the process being scheduled: it does not stop for ever at the
\* head of process_mem's loop
SpecRawFair == SpecRaw /\ WF_vars(process_mem)

----------------------------------------------------------------------------
(* What the claims speak of *)

\* the archive being extracted
Cur == argv[argi]

\* the length of the record built from tuple t
RecLen(t) == HDR + Len(t.content)

\* the length of the first k records of an archive built from recs
RECURSIVE PrefixLen(_, _)
PrefixLen(recs, k) == IF k = 0 THEN 0 ELSE PrefixLen(recs, k - 1) + RecLen(recs[k])

\* an archive is being extracted: process_mem has been entered for argv[argi]
Extracting == argi <= Len(argv) /\ pc \notin {"main", "exit1"}

\* the positions at which a record is being materialized
InSaveBuf == pc \in {"save_buf", "_mkdir_p", "return", "fopen", "fwrite", "chmod", "utime"}

\* process_mem has just left its loop for archive argv[argi - 1]
Completed == argi > 1 /\ pc \in {"main", "exit0"}

----------------------------------------------------------------------------
\* C1: Framing exactness.  While a well-formed archive of N records is
\* extracted, the records process_buf has returned are the first nrec
\* records of the archive: the sum of the returned lengths (0x100 + size
\* each) is the offset reached, which is the length of those records, and no
\* header or payload check fails; when process_mem's loop ends, exactly N
\* records were decoded, the returned lengths sum to the archive's byte
\* length, and zero bytes remain.
C1_FramingExact ==
    /\ (Extracting /\ WellFormed(Cur)) =>
          /\ err \notin {"TruncatedHeader", "TruncatedPayload"}
          /\ nrec <= Len(Cur.recs)
          /\ total = PrefixLen(Cur.recs, nrec)
          /\ off = total
          /\ size = Cur.cut - off
    /\ (Completed /\ WellFormed(argv[argi - 1])) =>
          /\ nrec = Len(argv[argi - 1].recs)
          /\ total = argv[argi - 1].cut
          /\ size = 0

\* an archive of two records, the second with a payload, was extracted to
\* its end
C1_Witness ==
    /\ pc = "exit0"
    /\ WellFormed(argv[1])
    /\ nrec = 2
    /\ part.size > 0
    /\ total = 2 * HDR + Len(argv[1].recs[1].content) + Len(argv[1].recs[2].content)

----------------------------------------------------------------------------
\* the record of the archive being extracted in which the file ends early
CutStart == PrefixLen(Cur.recs, Len(Cur.recs) - 1)

\* C2: Truncation rejection.  An archive cut strictly inside a record's
\* header or payload is never extracted to the success state; no record is
\* materialized from it unless the whole of its header and payload is in
\* the file, and the file written holds as many bytes as the record
\* declares; and extraction that reaches the cut record aborts there, with
\* TruncatedHeader when fewer than 0x100 bytes remain and TruncatedPayload
\* otherwise.
C2_TruncationRejected ==
    /\ Completed => WellFormed(argv[argi - 1])
    /\ (Extracting /\ ~WellFormed(Cur)) =>
          /\ InSaveBuf =>
                /\ off < CutStart
                /\ Len(Payload) = part.size
                /\ pc \in {"chmod", "utime"} => Len(fs[Target].data) = part.size
          /\ pc = "process_mem" => off <= CutStart
          /\ (pc = "aborted" /\ off = CutStart) =>
                err = (IF Cur.cut - CutStart < HDR THEN "TruncatedHeader"
                       ELSE "TruncatedPayload")
          /\ (pc = "aborted" /\ err \in {"TruncatedHeader", "TruncatedPayload"}) =>
                off = CutStart

\* the second record of an archive was found cut inside its payload after
\* the first was extracted
C2_Witness ==
    /\ pc = "aborted"
    /\ err = "TruncatedPayload"
    /\ nrec = 1
    /\ ~WellFormed(Cur)
    /\ Cur.cut - CutStart >= HDR

\* the same for a cut inside the header
C2_WitnessHeader ==
    /\ pc = "aborted"
    /\ err = "TruncatedHeader"
    /\ nrec = 1
    /\ ~WellFormed(Cur)

----------------------------------------------------------------------------
\* where the file of declared path q belongs: q, without its leading '/',
\* under the directory the program was started in
Under(q) == Root \o Components(q)

\* the file of tuple t is in filesystem f as the tuple describes it
Materialized(f, t) ==
    /\ Exists(f, Under(t.path))
    /\ f[Under(t.path)].kind = "file"
    /\ f[Under(t.path)].data = t.content
    /\ f[Under(t.path)].mode = t.mode
    /\ f[Under(t.path)].atime = t.time
    /\ f[Under(t.path)].mtime = t.time

\* the extraction of the first archive has ended, in success or not
FirstEnded == Len(after) >= 1 \/ pc \in {"aborted", "exit1"}

\* the filesystem the extraction of the first archive left
FirstLeft == IF Len(after) >= 1 THEN after[1] ELSE fs

\* C3: Round-trip.  After a well-formed archive built from a list of
\* (path, mode, time, content) tuples is extracted into an empty root, every
\* tuple's file exists at its path with the tuple's content, permission
\* bits and access and modification times.
C3_RoundTrip ==
    (fs0 = EmptyFs /\ WellFormed(argv[1]) /\ FirstEnded) =>
        \A i \in 1..Len(argv[1].recs) : Materialized(FirstLeft, argv[1].recs[i])

----------------------------------------------------------------------------
\* the materialization of the current record has ended: save_buf returned,
\* or the process was aborted inside it
SaveBufEnded ==
    \/ pc = "process_mem" /\ nrec > 0
    \/ pc = "aborted" /\ err \notin {"TruncatedHeader", "TruncatedPayload"}

\* nothing in filesystem f stands in the way of a file at declared path q:
\* no directory component of q is there as something else than a
\* directory, and the file's place holds no directory and no file that the
\* process may not write
Unobstructed(f, q) ==
    LET cs == Components(q)
    IN  /\ cs # <<>>
        /\ \A k \in 1..(Len(cs) - 1) :
               Exists(f, Root \o Take(cs, k)) => IsDir(f, Root \o Take(cs, k))
        /\ ~IsDir(f, Under(q))
        /\ Exists(f, Under(q)) => (euid0 \/ (f[Under(q)].mode \div OwnerWrite) % 2 = 1)

\* the proper prefixes of path p that are longer than the root
Ancestors(p) == {Take(p, k) : k \in (Len(Root) + 1)..(Len(p) - 1)}

\* C4: for every record whose decode succeeds, materialization creates or
\* overwrites exactly one regular file at the normalized path under the
\* extraction root, whatever the number of directory components of the
\* path (zero or more), and creates parent directories only as needed.
C4_OneFilePerRecord ==
    (SaveBufEnded /\ Unobstructed(snap, part.path)) =>
        /\ pc = "process_mem"
        /\ Exists(fs, Under(part.path))
        /\ fs[Under(part.path)].kind = "file"
        /\ \A p \in DOMAIN snap : p # Under(part.path) => (Exists(fs, p) /\ fs[p] = snap[p])
        /\ \A p \in DOMAIN fs \ DOMAIN snap :
               \/ p = Under(part.path)
               \/ p \in Ancestors(Under(part.path)) /\ IsDir(fs, p)

----------------------------------------------------------------------------
\* path p lies below the extraction root
BelowRoot(p) == Len(p) > Len(Root) /\ Take(p, Len(Root)) = Root

Relative(q) == q = <<>> \/ Head(q) # 47

\* C5: Path normalization.  Every path handed to directory creation and to
\* the opening of the file is relative (all leading '/' of the declared
\* path are gone before any filesystem operation); nothing is ever created
\* or changed outside the extraction root; and a record whose declared path
\* begins with '/' has, when save_buf returns, its file below the root at
\* the path that remains.
C5_LeadingSlashesStripped ==
    /\ pc \in {"_mkdir_p", "return", "fopen", "fwrite", "chmod", "utime"} =>
          /\ Relative(path)
          /\ Relative(s)
          /\ path = SkipSlashes(part.path)
    /\ \A p \in DOMAIN fs : BelowRoot(p) \/ (p \in DOMAIN fs0 /\ fs[p] = fs0[p])
    /\ (pc = "process_mem" /\ nrec > 0 /\ ~Relative(part.path)) =>
          /\ Exists(fs, Under(part.path))
          /\ fs[Under(part.path)].kind = "file"
          /\ fs[Under(part.path)].data = Payload

\* the record that declares "//a/b" was extracted to a/b below the root
C5_Witness ==
    /\ pc = "process_mem"
    /\ nrec > 0
    /\ part.path = <<47, 47, 97, 47, 98>>
    /\ Exists(fs, Root \o << <<97>>, <<98>> >>)
    /\ fs[Root \o << <<97>>, <<98>> >>].kind = "file"
    /\ ~Exists(fs, << <<97>>, <<98>> >>)

----------------------------------------------------------------------------
\* the directories the file of path q needs, outermost first
DirsOf(q) == [k \in 1..(Len(Components(q)) - 1) |-> Root \o Take(Components(q), k)]

\* in filesystem f something that is no directory stands where the file of
\* path q needs a directory
Conflict(f, q) == \E k \in 1..Len(DirsOf(q)) : Exists(f, DirsOf(q)[k]) /\ ~IsDir(f, DirsOf(q)[k])

\* C6: Conflict detection.  If a non-directory entry exists at a component
\* the record's path needs as a directory, the record gets no further than
\* directory creation: extraction aborts at that component with
\* DirectoryConflict, and the record leaves the entry and the rest of the
\* filesystem as they were (no mkdir, no file write, no chmod, no utime).
C6_ConflictDetected ==
    /\ (pc \in {"_mkdir_p", "return"} /\ Conflict(snap, path)) => fs = snap
    /\ pc \in {"return", "fopen", "fwrite", "chmod", "utime"} => ~Conflict(snap, path)
    /\ (pc = "process_mem" /\ nrec > 0) => ~Conflict(snap, path)
    /\ (pc = "aborted" /\ err \notin {"TruncatedHeader", "TruncatedPayload"}
          /\ Conflict(snap, path)) =>
          /\ err = "DirectoryConflict"
          /\ fs = snap
          /\ Exists(fs, Append(cwd, SplitFirst(s).first))
          /\ ~IsDir(fs, Append(cwd, SplitFirst(s).first))
          /\ Append(cwd, SplitFirst(s).first) = DirsOf(path)[Len(fds) + 1]
    /\ (pc = "aborted" /\ err = "DirectoryConflict") => Conflict(snap, path)

\* a plain file "a" was there from the start, the record declares "a/b/f",
\* and the process was aborted with everything as it was
C6_Witness ==
    /\ pc = "aborted"
    /\ err = "DirectoryConflict"
    /\ path = <<97, 47, 98, 47, 102>>
    /\ Exists(fs0, Append(Root, <<97>>))
    /\ fs0[Append(Root, <<97>>)].kind = "file"
    /\ fs = fs0

----------------------------------------------------------------------------
\* the step makes a directory
Makes == pc = "_mkdir_p" /\ fs' # fs

\* C7: Nested directory creation is incremental and ordered.  A step of
\* _mkdir_p that makes a directory makes the next one of the path's
\* directories, left to right: all directories to its left exist, none to
\* its right does, and it is made in its parent; a step that descends goes
\* into the directory it has just made or verified; and when the file is
\* opened all the path's directories exist, the file not having been
\* touched before.
C7_DirectoriesInOrder ==
    /\ [](pc = "fopen" =>
            /\ \A k \in 1..Len(DirsOf(path)) : IsDir(fs, DirsOf(path)[k])
            /\ Exists(fs, Under(path)) = Exists(snap, Under(path))
            /\ Exists(fs, Under(path)) => fs[Under(path)] = snap[Under(path)])
    /\ [][/\ Makes =>
               LET k == Len(fds) + 1
               IN  /\ k <= Len(DirsOf(path))
                   /\ ~Exists(fs, DirsOf(path)[k])
                   /\ fs' = Put(fs, DirsOf(path)[k], DirNode(511))
                   /\ IsDir(fs, Parent(DirsOf(path)[k]))
                   /\ \A j \in 1..Len(DirsOf(path)) :
                          IF j < k THEN IsDir(fs, DirsOf(path)[j])
                          ELSE ~Exists(fs, DirsOf(path)[j])
          /\ (pc = "_mkdir_p" /\ cwd' # cwd) =>
               /\ cwd' = DirsOf(path)[Len(fds) + 1]
               /\ IsDir(fs', cwd')
               /\ fds' = Append(fds, cwd)
      ]_vars

\* "a/b/f" with neither a nor a/b there before: both are directories when
\* the file is about to be opened
C7_Witness ==
    /\ pc = "fopen"
    /\ path = <<97, 47, 98, 47, 102>>
    /\ ~Exists(snap, Append(Root, <<97>>))
    /\ IsDir(fs, Root \o << <<97>>, <<98>> >>)
    /\ ~Exists(fs, Under(path))

----------------------------------------------------------------------------
\* C8: Idempotent re-extraction.  When the same well-formed archive is
\* extracted a second time into the same root after a first successful
\* extraction, the second extraction succeeds too and leaves the files,
\* contents, modes and timestamps the first left.
C8_ReextractionIdempotent ==
    (Len(after) >= 1 /\ Len(argv) >= 2 /\ argv[2] = argv[1] /\ WellFormed(argv[1])) =>
        /\ argi = 2 => pc \notin {"aborted", "exit1"}
        /\ Len(after) >= 2 => after[2] = after[1]

----------------------------------------------------------------------------
\* C9: Every filesystem operation failure during materialization is fatal:
\* once the creation of a directory has failed, the opening of the target
\* file has failed or the write of the payload was short, the process has
\* been aborted (nothing is retried, no later record is processed).
C9_FailuresFatal ==
    (\E i \in 1..Len(injected) : injected[i] \in {"mkdir", "fopen", "fwrite"}) =>
        pc = "aborted"

----------------------------------------------------------------------------
\* the run has ended in failure: a failed assert, or main's return 1
Failed == pc \in {"aborted", "exit1"}

\* C10 as claimed: per-archive independence.  A fatal failure while
\* extracting one archive stops only that archive: when the run has ended,
\* by main's return 0 or after a failed check inside an extraction, every
\* archive of the argument list has been attempted.
C10_SiblingsAttempted ==
    pc \in {"exit0", "aborted"} => opened = Len(argv)

\* C10 as amended: a fatal failure while extracting one archive ends the
\* whole run.  Whatever check fails, the process is at once aborted (or
\* main returns 1), the archives opened are those up to the failing one,
\* all before it extracted to their end, and nothing happens afterwards: no
\* later archive of the argument list is attempted.
C10_FailureEndsRun ==
    /\ [](err # "none" => Failed)
    /\ [](Failed => (err # "none" /\ opened = argi /\ Len(after) = argi - 1))
    /\ [][~Failed]_vars

\* the first of two archives failed, and the run has ended with the second
\* never opened
C10_Witness ==
    /\ pc = "aborted"
    /\ Len(argv) = 2
    /\ argi = 1
    /\ opened = 1

----------------------------------------------------------------------------
\* how many characters at the head of text q are in the set S
LeadLen(q, S) ==
    CHOOSE n \in 0..Len(q) :
        /\ \A i \in 1..n : q[i] \in S
        /\ n < Len(q) => q[n + 1] \notin S

\* the number the digits q write in the given base
RECURSIVE PlaceValue(_, _, _)
PlaceValue(q, base, i) ==
    IF i > Len(q) THEN 0
    ELSE DigitVal(q[i]) * base ^ (Len(q) - i) + PlaceValue(q, base, i + 1)

\* The number a field's text writes under base-0 unsigned parsing: after
\* white space and a sign, "0x" or "0X" announces hexadecimal, another
\* leading "0" octal, anything else decimal; the number is written by the
\* digits up to the first character that is no digit of the base, and a
\* '-' negates it as an unsigned 64-bit value.
Numeral(q) ==
    LET t0   == Drop(q, LeadLen(q, {c \in 0..255 : IsSpace(c)}))
        sgn  == t0 # <<>> /\ Head(t0) \in {43, 45}
        b    == IF sgn THEN Tail(t0) ELSE t0
        hex  == Len(b) >= 2 /\ b[1] = 48 /\ b[2] \in {120, 88}
        base == IF hex THEN 16 ELSE IF b # <<>> /\ b[1] = 48 THEN 8 ELSE 10
        d    == IF hex THEN Drop(b, 2) ELSE b
        v    == PlaceValue(Take(d, LeadLen(d, {c \in 0..255 : DigitVal(c) < base})), base, 1)
    IN  IF sgn /\ Head(t0) = 45 THEN 0 - v ELSE v

\* C11: Numeric field parsing is base-0 unsigned parsing.  The size, mode,
\* time and rsvd process_buf decodes from a record are the numbers their
\* fields' texts write: hexadecimal after "0x", octal after a leading "0",
\* decimal otherwise, up to the first character invalid for the base; a
\* mode field "0755" decodes to 493 and a size field "0x2A" to 42.
C11_BaseZeroParsing ==
    (pc = "save_buf" /\ off = 0) =>
        LET r == Cur.recs[1]
        IN  /\ part.size = Numeral(r.size)
            /\ part.mode = Numeral(r.mode)
            /\ part.time = Numeral(r.time)
            /\ part.rsvd = Numeral(r.rsvd)
            /\ r.mode = <<48, 55, 53, 53>> => part.mode = 493
            /\ r.size = <<48, 120, 50, 65>> => part.size = 42
            /\ r.size = <<50, 120>> => part.size = 2
            /\ r.mode = <<48, 55, 56, 57>> => part.mode = 7
            /\ r.time = <<48, 88, 49, 48>> => part.time = 16

\* the record with size "0x2A" and mode "0755" was decoded
C11_Witness ==
    /\ pc = "save_buf"
    /\ off = 0
    /\ Cur.recs[1].size = <<48, 120, 50, 65>>
    /\ Cur.recs[1].mode = <<48, 55, 53, 53>>
    /\ part.size = 42
    /\ part.mode = 493

----------------------------------------------------------------------------
\* C12: Offsets stay in range.  Every record that passed process_buf's
\* checks has a length 0x100 + size (in 64-bit unsigned arithmetic) of at
\* least 0x100 and at most the bytes remaining, and its payload lies
\* inside the buffer; the offset never exceeds the buffer's length, and
\* each record returned has advanced it by at least 0x100.
C12_OffsetsInRange ==
    /\ InSaveBuf =>
          /\ ULe(HDR, Length)
          /\ ULe(Length, size)
          /\ InMapping
    /\ Extracting =>
          /\ ULe(off, Cur.cut)
          /\ pc = "process_mem" => ULe(HDR * nrec, off)

----------------------------------------------------------------------------
\* a check of process_buf on the record's length has failed
DecodeFailed == err \in {"TruncatedHeader", "TruncatedPayload"}

\* C13: Decode precedes materialization and abort is final.  A record is
\* being materialized only if both the header-size check and the
\* payload-size check passed on it; the filesystem changes in no step
\* outside materialization (none of process_mem or of process_buf, a
\* failing check included); and once a check of process_buf has failed the
\* process is aborted and takes no further step, so the failing record and
\* all later ones change nothing.
C13_DecodeBeforeWrite ==
    /\ [](InSaveBuf => (ULe(HDR, size) /\ Fits(part.size, size)))
    /\ [](DecodeFailed => pc = "aborted")
    /\ [][/\ fs' # fs => pc \in {"_mkdir_p", "fopen", "fwrite", "chmod", "utime"}
          /\ DecodeFailed' => fs' = fs
          /\ ~DecodeFailed
      ]_vars

\* the second record failed its decode after the first was materialized,
\* and the filesystem is as the first record left it
C13_Witness ==
    /\ pc = "aborted"
    /\ DecodeFailed
    /\ nrec = 1
    /\ fs # snap
    /\ Exists(fs, Under(part.path))
    /\ fs[Under(part.path)].atime = part.time

----------------------------------------------------------------------------
\* the text of the field of width w at offset o of mem: its bytes up to the
\* first NUL among them, all w of them if there is none
FieldText(mem, o, w) ==
    LET f == SubSeq(mem, o + 1, o + w)
        z == IndexFrom(f, 0, 1)
    IN  IF z = 0 THEN f ELSE Take(f, z - 1)

\* C14: Fixed-width text fields are bounded by their width.  The path of
\* the record being materialized is the text of its path field, the bytes
\* up to the first NUL or up to the 0x3C bytes of the field, whichever
\* comes first: it is never longer than the field and holds no byte of the
\* vers field or of the payload.
C14_FieldsBounded ==
    InSaveBuf =>
        /\ part.path = FieldText(Mem, PathOff, PathW)
        /\ Len(part.path) <= PathW

----------------------------------------------------------------------------
\* the declared path q has ".." among its directory components
HasDotDot(q) == \E k \in 1..(Len(Components(q)) - 1) : Components(q)[k] = <<46, 46>>

\* the component at which _mkdir_p stands
Component == SplitFirst(s).first

\* C15 as claimed: extraction does not defend against ".." traversal.  No
\* record is rejected by directory creation on account of a ".."
\* directory component: when _mkdir gives up a component as invalid, the
\* component is not "..".
C15_DotDotNotRejected ==
    (pc = "aborted" /\ err = "InvalidComponent") => Component # <<46, 46>>

\* C15 as amended: normalization removes only the leading '/' of the
\* declared path, and directory creation rejects "..".  The file of a
\* record whose path has a ".." directory component is never opened: its
\* materialization ends in _mkdir_p with the process aborted, at the ".."
\* component as invalid unless a directory conflict to its left came
\* first, and nothing outside the extraction root is created or changed.
C15_DotDotRejected ==
    /\ pc \in {"_mkdir_p", "return", "fopen"} => path = SkipSlashes(part.path)
    /\ (InSaveBuf /\ HasDotDot(part.path)) => pc \in {"save_buf", "_mkdir_p"}
    /\ (SaveBufEnded /\ HasDotDot(part.path)) =>
          /\ pc = "aborted"
          /\ err \in {"InvalidComponent", "DirectoryConflict"}
          /\ err = "InvalidComponent" => Component = <<46, 46>>
          /\ err = "DirectoryConflict" => Conflict(snap, path)
          /\ \A p \in DOMAIN fs : BelowRoot(p) \/ (p \in DOMAIN fs0 /\ fs[p] = fs0[p])

\* "a/../b/f": directory a was made and entered, and the process was
\* aborted at ".."
C15_Witness ==
    /\ pc = "aborted"
    /\ err = "InvalidComponent"
    /\ part.path = <<97, 47, 46, 46, 47, 98, 47, 102>>
    /\ Component = <<46, 46>>
    /\ cwd = Append(Root, <<97>>)
    /\ ~Exists(fs0, cwd)
    /\ IsDir(fs, cwd)

----------------------------------------------------------------------------
\* C16: Working directory is restored.  Outside directory creation, that
\* is before mkdir_p_fn is called for a record and after it has returned,
\* the process's working directory is the directory the program was
\* started in, whatever the depth of the record's path: each record is
\* resolved against the same extraction root.
C16_CwdRestored ==
    pc \notin {"_mkdir_p", "return", "aborted"} => cwd = Root

----------------------------------------------------------------------------
\* C17: Termination.  The extraction of an archive ends, in success with
\* zero bytes remaining or in a fatal abort, whatever the buffer holds:
\* the record loop does not iterate forever, so that the condition of
\* process_mem's loop is tested only finitely many times in a run.
C17_Terminates == <>[](pc # "process_mem")

----------------------------------------------------------------------------
\* everything in filesystem f is in g as it is in f
Kept(f, g) == \A p \in DOMAIN f : p \in DOMAIN g /\ g[p] = f[p]

\* C18: No rollback on abort.  The step that aborts the process removes
\* and changes nothing, and no step follows it; up to the opening of its
\* file a record has changed nothing that was there when its processing
\* began; so when extraction aborts at a record, in its decode or in its
\* materialization, the file of every earlier record of the archive is
\* still there with the content, mode and timestamps the record gave it
\* (the last record's, where several wrote one path).
C18_NoRollback ==
    /\ [](pc \in {"save_buf", "_mkdir_p", "return", "fopen"} => Kept(snap, fs))
    /\ []((pc = "aborted" /\ ~DecodeFailed) => Kept(snap, fs))
    /\ []((pc = "aborted" /\ Extracting) =>
             \A i \in 1..nrec :
                 (\A j \in (i + 1)..nrec : Under(Cur.recs[j].path) # Under(Cur.recs[i].path))
                     => Materialized(fs, Cur.recs[i]))
    /\ [][/\ pc' = "aborted" => Kept(fs, fs')
          /\ pc # "aborted"
      ]_vars

\* the second record of an archive was given up in directory creation, and
\* the file of the first is there as the first record wrote it
C18_Witness ==
    /\ pc = "aborted"
    /\ ~DecodeFailed
    /\ nrec = 1
    /\ fs # fs0
    /\ Materialized(fs, Cur.recs[1])
    /\ Len(Cur.recs[1].content) > 0

====
